---- MODULE Spec2Model ----
(***************************************************************************)
(* Model of src/core/ca_bundle.py: ensure_curl_cffi_ca_bundle() and        *)
(* _is_ascii().                                                            *)
(*                                                                         *)
(* State: the host (sys.platform, whether certifi can be imported and      *)
(* whether certifi.where() answers, the source bundle path/file), the      *)
(* shared temp directory <temp>/sora2api/certs, and, for every process,    *)
(* its os.environ, its position inside the function and its locals.        *)
(*                                                                         *)
(* Strings are sequences: sys.platform is a sequence of characters, the    *)
(* source path a sequence of code points, a file content a sequence of     *)
(* bytes, every other path a sequence of string tokens.                    *)
(***************************************************************************)
EXTENDS Integers, Sequences, FiniteSets, TLC

\* ---------------------------------------------------------------- bounds
NumProcs == 2     \* processes sharing the temp directory
MaxCalls == 2     \* calls of ensure_curl_cffi_ca_bundle per process
MaxLen == 2       \* longest bundle content, in bytes

Procs == 1..NumProcs
Bytes == {0, 1}

RECURSIVE SeqsUpTo(_, _)
SeqsUpTo(S, n) ==
    IF n = 0 THEN {<< >>}
    ELSE LET shorter == SeqsUpTo(S, n - 1)
         IN  shorter \cup {Append(s, x) : s \in {t \in shorter : Len(t) = n - 1}, x \in S}

Contents == SeqsUpTo(Bytes, MaxLen)          \* what a file can hold
Data == Contents \ {<< >>}                   \* a source bundle is not empty

\* ------------------------------------------------------- os.environ (dict)
CURL_CA_BUNDLE == "CURL_CA_BUNDLE"
SSL_CERT_FILE == "SSL_CERT_FILE"
EnvKeys == {CURL_CA_BUNDLE, SSL_CERT_FILE}

EmptyStr == << >>
UserBundle == <<"etc", "ssl", "custom.pem">>
UserCertFile == <<"etc", "ssl", "cert.pem">>

\* os.environ[k] = v
SetItem(e, k, v) == [x \in (DOMAIN e) \cup {k} |-> IF x = k THEN v ELSE e[x]]

\* os.environ.setdefault(k, v), with the bug of assigning unconditionally
SetDefault_Overwrite(e, k, v) == SetItem(e, k, v)

\* os.environ.setdefault(k, v): assigns only when the key is absent
SetDefault(e, k, v) == IF k \in DOMAIN e THEN e ELSE SetItem(e, k, v)

\* the override test looking at the wrong variable
EnvOverride_WrongKey(e) == SSL_CERT_FILE \in DOMAIN e /\ e[SSL_CERT_FILE] # EmptyStr

\* `if os.environ.get("CURL_CA_BUNDLE"):` -- present and non-empty
EnvOverride(e) == CURL_CA_BUNDLE \in DOMAIN e /\ e[CURL_CA_BUNDLE] # EmptyStr

\* -------------------------------------------------------------- platform
Win32 == <<"w", "i", "n", "3", "2">>
Linux == <<"l", "i", "n", "u", "x">>
Darwin == <<"d", "a", "r", "w", "i", "n">>
Platforms == {Win32, Linux, Darwin}
WinPrefix == <<"w", "i", "n">>

\* the platform test as a substring test: "darwin" contains "win"
IsWindowsLike_Contains(plat) ==
    \E i \in 1..Len(plat) :
        /\ i + Len(WinPrefix) - 1 <= Len(plat)
        /\ SubSeq(plat, i, i + Len(WinPrefix) - 1) = WinPrefix

\* sys.platform.startswith("win")
IsWindowsLike(plat) ==
    /\ Len(plat) >= Len(WinPrefix)
    /\ SubSeq(plat, 1, Len(WinPrefix)) = WinPrefix

\* ------------------------------------------------------------- _is_ascii
AsciiLimit == 128

AsciiPath == <<67, 58, 92, 99, 97>>            \* C:\ca
CjkPath == <<67, 58, 92, 29992, 25143>>        \* C:\ + U+7528 U+6237
Latin1Path == <<67, 58, 92, 233>>              \* C:\ + U+00E9
SourcePaths == {AsciiPath, CjkPath, Latin1Path}

\* the two return statements of _is_ascii swapped
IsAscii_Inverted(s) == \E i \in 1..Len(s) : s[i] >= AsciiLimit

\* s.encode("ascii") succeeds iff every code point is below 128
IsAscii(s) == \A i \in 1..Len(s) : s[i] < AsciiLimit

\* ------------------------------------------------------ the source bundle
\* src.exists() answering True whatever is on disk
SourceOnDisk_Always(exists) == TRUE

\* src.exists()
SourceOnDisk(exists) == exists

\* ------------------------------------------------- digest and destination
HexDigits == <<"0", "1", "2", "3", "4", "5", "6", "7",
               "8", "9", "a", "b", "c", "d", "e", "f">>
HashMod == 16 * 16
DigestLen == 12

\* stand-in for SHA-256: a deterministic mixing of all bytes of the content
RECURSIVE HashNum(_)
HashNum(d) ==
    IF d = << >> THEN 7
    ELSE (HashNum(SubSeq(d, 1, Len(d) - 1)) * 31 + d[Len(d)] + Len(d)) % HashMod

\* hashlib.sha256(data).hexdigest()
HexDigest(d) == <<HexDigits[(HashNum(d) \div 16) + 1], HexDigits[(HashNum(d) % 16) + 1]>>

Min(a, b) == IF a < b THEN a ELSE b
Max(a, b) == IF a > b THEN a ELSE b

\* hexdigest()[:12]
Digest(d) == SubSeq(HexDigest(d), 1, Min(DigestLen, Len(HexDigest(d))))

\* Path(tempfile.gettempdir()) / "sora2api" / "certs"
DestDir == <<"tmp", "sora2api", "certs">>

\* dest_dir / f"cacert-{digest}.pem"
DestPath(d) == DestDir \o <<"cacert-">> \o Digest(d) \o <<".pem">>

\* `if not dest.exists():` always taken
NeedsWrite_Always(fs, dest) == TRUE

\* `if not dest.exists():`
NeedsWrite(fs, dest) == dest \notin DOMAIN fs

\* bytes w written at offset 0 over the content cur
Overlay(cur, w) ==
    [i \in 1..Max(Len(cur), Len(w)) |-> IF i <= Len(w) THEN w[i] ELSE cur[i]]

\* the file dest of fs replaced by content c
PutFile(fs, dest, c) == [x \in (DOMAIN fs) \cup {dest} |-> IF x = dest THEN c ELSE fs[x]]

Prefixes(d) == {SubSeq(d, 1, n) : n \in 0..Len(d)}

\* os.environ assigned before the destination file step
EnvBeforePublish_Early(e, dest) == SetDefault(SetItem(e, CURL_CA_BUNDLE, dest), SSL_CERT_FILE, dest)

\* os.environ while lines 56-64 run: these lines do not assign it
EnvBeforePublish(e, dest) == e

\* lines 66-67
PublishEnv(e, dest) == SetDefault(SetItem(e, CURL_CA_BUNDLE, dest), SSL_CERT_FILE, dest)

\* ------------------------------------------------------------------ state
VARIABLES
    platform,     \* sys.platform
    certifi,      \* "ok", "ImportError" (import fails), "WhereRaises" (where() raises)
    srcPath,      \* certifi.where()
    srcExists,    \* whether the source bundle is on disk
    srcData,      \* the bytes of the source bundle
    faulty,       \* whether filesystem operations may fail (OSError)
    dirExists,    \* whether <temp>/sora2api/certs exists
    files,        \* the files of that directory: path -> content
    environ,      \* os.environ of every process
    pc,           \* position of every process inside the function
    local,        \* locals of the running call: data, dest, and its log
    results       \* per process, the outcome of every finished call

vars == <<platform, certifi, srcPath, srcExists, srcData, faulty, dirExists,
          files, environ, pc, local, results>>

host == <<platform, certifi, srcPath, srcExists, srcData, faulty>>

InitEnvirons ==
    {e \in UNION {[K -> {EmptyStr, UserBundle, UserCertFile}] : K \in SUBSET EnvKeys} :
        /\ (CURL_CA_BUNDLE \in DOMAIN e => e[CURL_CA_BUNDLE] # UserCertFile)
        /\ (SSL_CERT_FILE \in DOMAIN e => e[SSL_CERT_FILE] # UserBundle)}

NoFiles == [x \in {} |-> << >>]

\* the temp directory before the first call: absent, empty, or holding one
\* cacert-*.pem of an earlier run (complete, cut short, or of another bundle)
InitTemp(d) ==
    {<<FALSE, NoFiles>>, <<TRUE, NoFiles>>}
        \cup {<<TRUE, PutFile(NoFiles, DestPath(n), c)>> : n \in {d, <<0>>}, c \in Contents}

NoLocal == [data |-> << >>, dest |-> << >>, pre |-> NoFiles, io |-> {}]

InitCommon ==
    /\ pc = [p \in Procs |-> "idle"]
    /\ local = [p \in Procs |-> NoLocal]
    /\ results = [p \in Procs |-> << >>]

\* one process, every host, every temp directory, filesystem faults possible
Init ==
    /\ platform \in Platforms
    /\ certifi \in {"ok", "ImportError", "WhereRaises"}
    /\ srcPath \in SourcePaths
    /\ srcExists \in BOOLEAN
    /\ srcData \in Data
    /\ faulty = TRUE
    /\ \E t \in InitTemp(srcData) : dirExists = t[1] /\ files = t[2]
    /\ \E e \in InitEnvirons : environ = [p \in Procs |-> e]
    /\ InitCommon

\* several processes on an affected host with a fresh temp directory and a
\* filesystem that does not fail
InitConc ==
    /\ platform = Win32
    /\ certifi = "ok"
    /\ srcPath \in SourcePaths \ {AsciiPath}
    /\ srcExists = TRUE
    /\ srcData \in Data
    /\ faulty = FALSE
    /\ dirExists \in BOOLEAN
    /\ files = NoFiles
    /\ \E e \in InitEnvirons : environ = [p \in Procs |-> e]
    /\ InitCommon

\* ---------------------------------------------------------------- actions
\* the call of p ends: ret is "None", "str" or "raise"
Finish(p, ret, val, io, post, fs) ==
    /\ results' = [results EXCEPT ![p] = Append(@,
            [ret |-> ret, val |-> val, io |-> io,
             pre |-> IF pc[p] = "idle" THEN environ[p] ELSE local[p].pre,
             post |-> post,
             data |-> local[p].data,
             left |-> IF local[p].dest \in DOMAIN fs THEN fs[local[p].dest] ELSE << >>])]
    /\ pc' = [pc EXCEPT ![p] = "idle"]
    /\ local' = [local EXCEPT ![p] = NoLocal]

OSError == <<"OSError">>
ProviderError == <<"Exception">>

\* lines 35-53: the decision tree up to src.exists()
Call(p) ==
    /\ pc[p] = "idle"
    /\ Len(results[p]) < MaxCalls
    /\ UNCHANGED <<host, dirExists, files, environ>>
    /\ IF EnvOverride(environ[p])
         THEN Finish(p, "str", environ[p][CURL_CA_BUNDLE], {}, environ[p], files)
       ELSE IF ~IsWindowsLike(platform)
         THEN Finish(p, "None", << >>, {}, environ[p], files)
       ELSE IF certifi = "ImportError"
         THEN Finish(p, "None", << >>, {}, environ[p], files)
       ELSE IF certifi = "WhereRaises"
         THEN Finish(p, "raise", ProviderError, {}, environ[p], files)
       ELSE IF IsAscii(srcPath)
         THEN Finish(p, "None", << >>, {}, environ[p], files)
       ELSE IF ~SourceOnDisk(srcExists)
         THEN Finish(p, "None", << >>, {"src.exists"}, environ[p], files)
       ELSE /\ pc' = [pc EXCEPT ![p] = "mkdir"]
            /\ local' = [local EXCEPT ![p] =
                    [data |-> << >>, dest |-> << >>, pre |-> environ[p],
                     io |-> {"src.exists"}]]
            /\ UNCHANGED results

\* line 57: dest_dir.mkdir(parents=True, exist_ok=True)
Mkdir(p) ==
    /\ pc[p] = "mkdir"
    /\ UNCHANGED <<host, files, environ>>
    /\ \/ /\ dirExists' = TRUE
          /\ pc' = [pc EXCEPT ![p] = "read"]
          /\ local' = [local EXCEPT ![p].io = @ \cup {"mkdir"}]
          /\ UNCHANGED results
       \/ /\ faulty
          /\ UNCHANGED dirExists
          /\ Finish(p, "raise", OSError, local[p].io \cup {"mkdir"}, environ[p], files)

\* lines 59-61: data = src.read_bytes(); digest; dest
ReadBytes(p) ==
    /\ pc[p] = "read"
    /\ UNCHANGED <<host, dirExists, files, environ>>
    /\ \/ /\ srcExists
          /\ pc' = [pc EXCEPT ![p] = "check"]
          /\ local' = [local EXCEPT ![p].data = srcData,
                                    ![p].dest = DestPath(srcData),
                                    ![p].io = @ \cup {"read_bytes"}]
          /\ UNCHANGED results
       \/ /\ faulty \/ ~srcExists
          /\ Finish(p, "raise", OSError, local[p].io \cup {"read_bytes"}, environ[p], files)

\* line 63: if not dest.exists()
CheckDest(p) ==
    /\ pc[p] = "check"
    /\ UNCHANGED <<host, dirExists, files, results>>
    /\ environ' = [environ EXCEPT ![p] = EnvBeforePublish(@, local[p].dest)]
    /\ pc' = [pc EXCEPT ![p] =
            IF NeedsWrite(files, local[p].dest) THEN "open" ELSE "publish"]
    /\ local' = [local EXCEPT ![p].io = @ \cup {"dest.exists"}]

\* line 64, first half: write_bytes opens dest for writing, which creates or
\* truncates it
OpenDest(p) ==
    /\ pc[p] = "open"
    /\ UNCHANGED <<host, dirExists, environ>>
    /\ \/ /\ files' = PutFile(files, local[p].dest, << >>)
          /\ pc' = [pc EXCEPT ![p] = "write"]
          /\ local' = [local EXCEPT ![p].io = @ \cup {"write_bytes"}]
          /\ UNCHANGED results
       \/ /\ faulty
          /\ UNCHANGED files
          /\ Finish(p, "raise", OSError, local[p].io \cup {"write_bytes"}, environ[p], files)

\* line 64, second half: write_bytes writes data from offset 0 and closes; a
\* failing write (disk full) leaves only a part of data written
WriteDest(p) ==
    /\ pc[p] = "write"
    /\ UNCHANGED <<host, dirExists, environ>>
    /\ LET dest == local[p].dest
           cur == IF dest \in DOMAIN files THEN files[dest] ELSE << >>
       IN  \/ /\ files' = PutFile(files, dest, Overlay(cur, local[p].data))
              /\ pc' = [pc EXCEPT ![p] = "publish"]
              /\ UNCHANGED <<local, results>>
           \/ /\ faulty
              /\ \E w \in Prefixes(local[p].data) \ {local[p].data} :
                    /\ files' = PutFile(files, dest, Overlay(cur, w))
                    /\ Finish(p, "raise", OSError, local[p].io, environ[p], files')

\* lines 66-68: publish the destination and return it
Publish(p) ==
    /\ pc[p] = "publish"
    /\ UNCHANGED <<host, dirExists, files>>
    /\ environ' = [environ EXCEPT ![p] = PublishEnv(@, local[p].dest)]
    /\ Finish(p, "str", local[p].dest, local[p].io, environ'[p], files)

\* the caller removes CURL_CA_BUNDLE between two calls
ClearEnv(p) ==
    /\ pc[p] = "idle"
    /\ results[p] # << >>
    /\ Len(results[p]) < MaxCalls
    /\ CURL_CA_BUNDLE \in DOMAIN environ[p]
    /\ environ' = [environ EXCEPT ![p] = [k \in (DOMAIN @) \ {CURL_CA_BUNDLE} |-> @[k]]]
    /\ UNCHANGED <<host, dirExists, files, pc, local, results>>

Step(p) ==
    \/ Call(p)
    \/ Mkdir(p)
    \/ ReadBytes(p)
    \/ CheckDest(p)
    \/ OpenDest(p)
    \/ WriteDest(p)
    \/ Publish(p)
    \/ ClearEnv(p)

\* a single process
Next == Step(1)

\* every process, in any interleaving
NextConc == \E p \in Procs : Step(p)

Spec == Init /\ [][Next]_vars

SpecConc == InitConc /\ [][NextConc]_vars

\* ------------------------------------------------------------ properties
Last(q) == q[Len(q)]

\* every finished call, of every process
Finished == UNION {{results[p][i] : i \in DOMAIN results[p]} : p \in Procs}

\* CURL_CA_BUNDLE is set to a non-empty value in the environment e
CurlSet(e) == CURL_CA_BUNDLE \in DOMAIN e /\ Len(e[CURL_CA_BUNDLE]) > 0

\* the call went through the relocation step and returned the destination
Relocated(r) == r.ret = "str" /\ "dest.exists" \in r.io

\* p finishes a call in this step
Finishes(p) == Len(results'[p]) = Len(results[p]) + 1

\* C1: a call that finds CURL_CA_BUNDLE set to a non-empty value returns
\* exactly that value, performs no filesystem I/O and leaves os.environ as it
\* was, on every platform, for every provider state and source path, and
\* whether the user or an earlier call set the value.
C1_OverrideWins ==
    \A r \in Finished :
        CurlSet(r.pre) =>
            /\ r.ret = "str"
            /\ r.val = r.pre[CURL_CA_BUNDLE]
            /\ r.io = {}
            /\ r.post = r.pre

\* a second call returns, without I/O, the value the first call published
C1_Witness ==
    \E p \in Procs :
        /\ Len(results[p]) = 2
        /\ Relocated(results[p][1])
        /\ CurlSet(results[p][2].pre)
        /\ results[p][2].pre[CURL_CA_BUNDLE] = results[p][1].val
        /\ results[p][2].ret = "str"
        /\ results[p][2].io = {}

\* C2 as stated: on a platform that is not Windows-like every call returns
\* None and performs no filesystem I/O, whatever the environment variables.
C2_Original ==
    \A r \in Finished :
        platform # Win32 => r.ret = "None" /\ r.io = {}

\* C2 amended: on a platform that is not Windows-like a call performs no
\* filesystem I/O and changes no environment variable; it returns None when
\* CURL_CA_BUNDLE is unset or empty, and the value of CURL_CA_BUNDLE otherwise.
C2_NotAffected ==
    \A r \in Finished :
        platform # Win32 =>
            /\ r.io = {}
            /\ r.post = r.pre
            /\ IF CurlSet(r.pre)
                 THEN r.ret = "str" /\ r.val = r.pre[CURL_CA_BUNDLE]
                 ELSE r.ret = "None"

\* on darwin, with an existing non-ASCII source and no override, None is returned
C2_Witness ==
    /\ platform = Darwin
    /\ certifi = "ok"
    /\ srcPath = CjkPath
    /\ srcExists
    /\ \E r \in Finished : ~CurlSet(r.pre) /\ r.ret = "None" /\ r.io = {}

\* C3: on an affected platform with CURL_CA_BUNDLE unset, a provider that
\* cannot be imported or that raises while resolving the source path makes
\* the call return None; no error reaches the caller.
C3_ProviderSoft ==
    \A r \in Finished :
        (platform = Win32 /\ ~CurlSet(r.pre) /\ certifi \in {"ImportError", "WhereRaises"})
            => r.ret = "None"

\* C4: a call that relocates returns the destination path and leaves
\* CURL_CA_BUNDLE equal to it; SSL_CERT_FILE equals it if it was not set
\* before the call and keeps its previous value if it was.
C4_Published ==
    \A r \in Finished :
        Relocated(r) =>
            /\ r.val = DestDir \o <<"cacert-">> \o Digest(r.data) \o <<".pem">>
            /\ r.post[CURL_CA_BUNDLE] = r.val
            /\ SSL_CERT_FILE \in DOMAIN r.post
            /\ r.post[SSL_CERT_FILE] =
                 IF SSL_CERT_FILE \in DOMAIN r.pre THEN r.pre[SSL_CERT_FILE] ELSE r.val

\* a relocation with SSL_CERT_FILE set by the user beforehand
C4_Witness ==
    \E r \in Finished :
        /\ Relocated(r)
        /\ SSL_CERT_FILE \in DOMAIN r.pre
        /\ r.pre[SSL_CERT_FILE] = UserCertFile
        /\ r.post[CURL_CA_BUNDLE] = r.val

\* C5: once a call of a process has relocated the bundle, a later call of
\* that process (the source unchanged) that returns a path returns the same
\* path and does not write the destination, also when CURL_CA_BUNDLE was
\* cleared in between; and no step after the first relocation creates or
\* changes a cache file.
C5_Idempotent ==
    [][\A p \in Procs :
          (\E i \in DOMAIN results[p] : Relocated(results[p][i])) =>
              /\ files' = files
              /\ (Finishes(p) /\ Last(results'[p]).ret = "str") =>
                    /\ \A i \in DOMAIN results[p] :
                          Relocated(results[p][i]) => Last(results'[p]).val = results[p][i].val
                    /\ "write_bytes" \notin Last(results'[p]).io]_vars

\* the first call wrote the destination; CURL_CA_BUNDLE was cleared; the second
\* call found the destination present and returned it without writing
C5_Witness ==
    \E p \in Procs :
        /\ Len(results[p]) = 2
        /\ Relocated(results[p][1])
        /\ "write_bytes" \in results[p][1].io
        /\ Relocated(results[p][2])
        /\ ~CurlSet(results[p][2].pre)
        /\ "write_bytes" \notin results[p][2].io
        /\ results[p][2].val = results[p][1].val

\* C6: whenever a call relocates and returns the destination path, the file
\* at that path holds a byte-for-byte copy of the source bundle the call read,
\* whatever the temp directory held before the call.
C6_ByteCopy ==
    \A r \in Finished : Relocated(r) => r.left = r.data

\* C7: with several processes sharing the temp directory and reading the same
\* source, in every interleaving each call that returns the destination path
\* leaves that file holding exactly the source bytes.
C7_RaceSafe ==
    \A r \in Finished : Relocated(r) => r.left = srcData

C9_NoActionFrame ==
    [][/\ \A p \in Procs :
            (Finishes(p) /\ Last(results'[p]).ret = "None") =>
                /\ environ' = environ
                /\ dirExists' = dirExists
                /\ files' = files
                /\ Last(results'[p]).post = Last(results'[p]).pre
       /\ ~srcExists => (dirExists' = dirExists /\ files' = files)]_vars

\* the source file is missing: None after the existence check, no directory
C9_Witness ==
    /\ ~srcExists
    /\ ~dirExists
    /\ \E r \in Finished : r.ret = "None" /\ r.io = {"src.exists"}

\* C10: a failing mkdir, read or write ends the call with the error raised to
\* the caller and os.environ as it was when the call began; os.environ is
\* assigned only after the destination file step has completed.
C10_ErrorBeforeEnv ==
    /\ \A r \in Finished : (r.ret = "raise" /\ r.val = OSError) => r.post = r.pre
    /\ \A p \in Procs :
          pc[p] \in {"mkdir", "read", "check", "open", "write", "publish"}
              => environ[p] = local[p].pre

\* the write of the destination failed and the error was raised
C10_Witness ==
    \E r \in Finished :
        /\ r.ret = "raise"
        /\ r.val = OSError
        /\ "write_bytes" \in r.io
        /\ ~CurlSet(r.post)

====
